---------------------------- MODULE Spec2Model ----------------------------
(***************************************************************************)
(* A model of the OCSP response signer of src/ocsp/ocsp.go.                *)
(*                                                                         *)
(*   - NewStandardSignerFromFile / NewSigner build a StandardSigner;       *)
(*   - StandardSigner.Sign validates a SignRequest against the signer's    *)
(*     issuer, computes thisUpdate / nextUpdate from the clock, resolves   *)
(*     the status string, fills an ocsp.Response template and hands it to  *)
(*     ocsp.CreateResponse.                                                *)
(*                                                                         *)
(* Units.  The clock is read in minutes; a time.Time is a pair             *)
(* [min, ns]: a clock reading in minutes plus a signed 64-bit nanosecond   *)
(* offset.  A time.Duration is a signed 64-bit count of nanoseconds, kept  *)
(* as 8 little-endian bytes so that the wrap-around of                     *)
(* time.Duration(interval) * time.Second is the one of the machine.        *)
(* The build modelled is a 64-bit one (int is 64 bits wide).               *)
(***************************************************************************)
EXTENDS Integers, Sequences, FiniteSets, TLC

(***************************************************************************)
(* Bounds of the model.                                                    *)
(***************************************************************************)
\* The last clock reading, in minutes.
MaxNow == 75
\* The clock advances in steps of this many minutes.
ClockStep == 15
\* Revocation reason codes of the requests range over 0..MaxReason.
MaxReason == 1

(***************************************************************************)
(* Signed 64-bit integers as 8 little-endian bytes (two's complement).     *)
(***************************************************************************)
\* Number of bytes of an int64 / time.Duration.
Width == 8
\* Radix of one byte.
Base == 256

Digit(a, i) == IF i <= Len(a) THEN a[i] ELSE 0

\* The n low bytes of a natural number n < 2^31.
RECURSIVE Bytes(_, _)
Bytes(v, n) == IF n = 0 THEN << >> ELSE << v % Base >> \o Bytes(v \div Base, n - 1)

Int64(v) == Bytes(v, Width)

Zero64 == Int64(0)

\* Column k of the schoolbook product: the sum of a[i] * b[k+1-i], i in 1..k.
RECURSIVE ColSum(_, _, _, _)
ColSum(a, b, k, i) ==
    IF i > k THEN 0 ELSE Digit(a, i) * Digit(b, k + 1 - i) + ColSum(a, b, k, i + 1)

\* The n low bytes of a * b, from byte k on, with the carry of the bytes below.
RECURSIVE MulFrom(_, _, _, _, _)
MulFrom(a, b, k, carry, n) ==
    IF k > n THEN << >>
    ELSE LET c == ColSum(a, b, k, 1) + carry
         IN  << c % Base >> \o MulFrom(a, b, k + 1, c \div Base, n)

\* int64 multiplication: the product modulo 2^64.
Mul64(a, b) == MulFrom(a, b, 1, 0, Width)

\* The product of two non-negative int64 as a natural number of 16 bytes.
MulExact(a, b) == MulFrom(a, b, 1, 0, 2 * Width)

RECURSIVE AddFrom(_, _, _, _)
AddFrom(a, b, k, carry) ==
    IF k > Width THEN << >>
    ELSE LET c == Digit(a, k) + Digit(b, k) + carry
         IN  << c % Base >> \o AddFrom(a, b, k + 1, c \div Base)

\* int64 addition modulo 2^64.
Add64(a, b) == AddFrom(a, b, 1, 0)

\* Two's complement negation.
Neg64(a) == Add64([i \in 1..Width |-> Base - 1 - a[i]], Int64(1))

\* int64 subtraction modulo 2^64.
Sub64(a, b) == Add64(a, Neg64(b))

IsNeg64(a) == a[Width] >= Base \div 2

\* A non-negative int64 as a natural number of 16 bytes.
Widen(a) == a \o [i \in 1..Width |-> 0]

(***************************************************************************)
(* package time                                                            *)
(***************************************************************************)
\* time.Second in nanoseconds.
Second == Int64(1000000000)

\* time.Hour in the unit of the clock (minutes).
Hour == 60

\* A time.Time: clock reading in minutes plus a nanosecond offset.
Time(m) == [min |-> m, ns |-> Zero64]

\* The zero time.Time (January 1, year 1): an instant before every reading.
ZeroTime == Time(-1)

\* Time.Round(d) for a whole-minute instant: to the nearest multiple of d,
\* halfway values rounded up.
Round(t, d) ==
    LET r == t.min % d
    IN  IF r + r < d THEN Time(t.min - r) ELSE Time(t.min + (d - r))

\* Time.Add(d).
TimeAdd(t, d) == [t EXCEPT !.ns = Add64(@, d)]

\* Time.Sub(u) for two instants with the same reading in minutes.
TimeSub(t, u) == Sub64(t.ns, u.ns)

(***************************************************************************)
(* Errors.  Every error value is a record of the same shape; Go's nil is   *)
(* NoErr.                                                                  *)
(***************************************************************************)
Err(type, category, reason, msg) ==
    [type |-> type, category |-> category, reason |-> reason, msg |-> msg]

NoErr == Err("nil", "", "", "")

\* errors.New(msg)
ErrorsNew(msg) == Err("errorString", "", "", msg)

\* The error of ioutil.ReadFile on a file that cannot be read.
PathError(path) == Err("PathError", "", "", path)

\* cferr.Wrap(category, reason, err)
Wrap(category, reason, err) == Err("cferr.Error", category, reason, err.msg)

(***************************************************************************)
(* Certificates, keys and files.                                           *)
(***************************************************************************)
\* Raw DER names, as byte strings.
NameCA1 == << 49, 1 >>
NameCA2 == << 49, 2 >>
NameOCSP == << 49, 3 >>
NameLeaf == << 49, 4 >>

Cert(subject, issuer, serial, pub, signedBy) ==
    [RawSubject |-> subject, RawIssuer |-> issuer, SerialNumber |-> serial,
     PublicKey |-> pub, SignedBy |-> signedBy]

\* Go's nil *x509.Certificate.
NilCert == Cert(<< >>, << >>, 0, "", "")

CACert == Cert(NameCA1, NameCA1, 1, "ca1Pub", "ca1Pub")
OtherCACert == Cert(NameCA2, NameCA2, 1, "ca2Pub", "ca2Pub")
ResponderCert == Cert(NameOCSP, NameCA1, 2, "ocspPub", "ca1Pub")
\* Issued and signed by CA1.
LeafGood == Cert(NameLeaf, NameCA1, 3, "leafPub", "ca1Pub")
\* Names CA1 as its issuer, signed by CA2's key.
LeafForged == Cert(NameLeaf, NameCA1, 4, "leafPub", "ca2Pub")
\* Issued and signed by CA2.
LeafForeign == Cert(NameLeaf, NameCA2, 5, "leafPub", "ca2Pub")
\* Signed by CA1's key, names CA2 as its issuer.
LeafRenamed == Cert(NameLeaf, NameCA2, 6, "leafPub", "ca1Pub")

LeafCerts == {LeafGood, LeafForged, LeafForeign, LeafRenamed}

\* crypto.Signer values.
Key(pub, usable) == [Public |-> pub, usable |-> usable]
NilKey == Key("", FALSE)
OcspKey == Key("ocspPub", TRUE)
\* A key of an algorithm ocsp.CreateResponse cannot sign with.
OddKey == Key("oddPub", FALSE)

\* File contents: a PEM block of some type, or bytes that are no PEM.
Pem(type, cert, key) == [type |-> type, cert |-> cert, key |-> key]
NoBytes == Pem("", NilCert, NilKey)
CertPem(c) == Pem("CERTIFICATE", c, NilKey)
KeyPem(k) == Pem("PRIVATE KEY", NilCert, k)
Garbage == Pem("garbage", NilCert, NilKey)

\* The files on disk; any other path cannot be read.
Files ==
    [ p \in {"ca.pem", "ocsp.pem", "ocsp-key.pem", "junk.pem"} |->
        CASE p = "ca.pem"       -> CertPem(CACert)
          [] p = "ocsp.pem"     -> CertPem(ResponderCert)
          [] p = "ocsp-key.pem" -> KeyPem(OcspKey)
          [] p = "junk.pem"     -> Garbage ]

Paths == DOMAIN Files \cup {"missing.pem"}

\* ioutil.ReadFile
ReadFile(path) ==
    IF path \in DOMAIN Files
    THEN [bytes |-> Files[path], err |-> NoErr]
    ELSE [bytes |-> NoBytes, err |-> PathError(path)]

\* helpers.ParseCertificatePEM
ParseCertificatePEM(bytes) ==
    IF bytes.type = "CERTIFICATE"
    THEN [cert |-> bytes.cert, err |-> NoErr]
    ELSE [cert |-> NilCert, err |-> Err("cferr.Error", "CertificateError", "DecodeFailed", "")]

\* helpers.ParsePrivateKeyPEM
ParsePrivateKeyPEM(bytes) ==
    IF bytes.type = "PRIVATE KEY"
    THEN [key |-> bytes.key, err |-> NoErr]
    ELSE [key |-> NilKey, err |-> Err("cferr.Error", "PrivateKeyError", "DecodeFailed", "")]

(***************************************************************************)
(* The signer and its constructors.                                        *)
(***************************************************************************)
\* A StandardSigner value.
StandardSigner(issuer, responder, key, interval) ==
    [issuer |-> issuer, responder |-> responder, key |-> key, interval |-> interval]

\* A Signer interface value: << >> is nil, << s >> holds the signer s.
NilSigner == << >>

\* A conversion that takes the interval for milliseconds.
SecondsToDurationMilli(interval) == Mul64(interval, Int64(1000000))

\* The seconds-to-Duration conversion of NewSigner:
\* time.Duration(interval) * time.Second.
SecondsToDuration(interval) == Mul64(interval, Second)

\* NewSigner(issuer, responder, key, interval): the pair (Signer, error).
NewSigner(issuer, responder, key, interval) ==
    [signer |-> << StandardSigner(issuer, responder, key, SecondsToDuration(interval)) >>,
     err    |-> NoErr]

\* The file the responder certificate's bytes are read from (line 54).
ResponderSource(issuerFile, responderFile) == issuerFile

\* The error returned when the issuer or the responder file cannot be read
\* (lines 51 and 56).
CertReadError(err) == err

\* The error returned when the key file cannot be read (line 61).
KeyReadError(err) == Wrap("CertificateError", "ReadFailed", err)

\* NewStandardSignerFromFile(issuerFile, responderFile, keyFile, interval):
\* the pair (Signer, error).
NewStandardSignerFromFile(issuerFile, responderFile, keyFile, interval) ==
    LET Fail(e)        == [signer |-> NilSigner, err |-> e]
        issuerRead     == ReadFile(issuerFile)
        responderRead  == ReadFile(ResponderSource(issuerFile, responderFile))
        keyRead        == ReadFile(keyFile)
        issuerCert     == ParseCertificatePEM(issuerRead.bytes)
        responderCert  == ParseCertificatePEM(responderRead.bytes)
        key            == ParsePrivateKeyPEM(keyRead.bytes)
    IN  IF issuerRead.err # NoErr THEN Fail(CertReadError(issuerRead.err))
        ELSE IF responderRead.err # NoErr THEN Fail(CertReadError(responderRead.err))
        ELSE IF keyRead.err # NoErr THEN Fail(KeyReadError(keyRead.err))
        ELSE IF issuerCert.err # NoErr THEN Fail(issuerCert.err)
        ELSE IF responderCert.err # NoErr THEN Fail(responderCert.err)
        ELSE IF key.err # NoErr THEN Fail(key.err)
        ELSE NewSigner(issuerCert.cert, responderCert.cert, key.key, interval)

(***************************************************************************)
(* The inputs of the model.                                                *)
(***************************************************************************)
\* intervals in seconds, as Go ints: 0, 3600, the largest one whose
\* nanosecond count fits an int64 (9223372036), the next one (9223372037),
\* and one whose nanosecond count exceeds 2^64 (18446744074).
Interval0 == Int64(0)
Interval3600 == Int64(3600)
IntervalMaxExact == << 4, 125, 193, 37, 2, 0, 0, 0 >>
IntervalWrapNeg == << 5, 125, 193, 37, 2, 0, 0, 0 >>
IntervalWrapPos == << 10, 250, 130, 75, 4, 0, 0, 0 >>

Intervals == {Interval0, Interval3600, IntervalMaxExact, IntervalWrapNeg, IntervalWrapPos}

\* The intervals the constructors are called with on their own.
CtorIntervals == {Interval3600, IntervalWrapNeg}

\* The largest int64, 2^63 - 1, as a natural number of 16 bytes.
MaxInt64Wide == [i \in 1..(2 * Width) |-> IF i < Width THEN Base - 1
                                          ELSE IF i = Width THEN (Base \div 2) - 1 ELSE 0]

\* a <= b for natural numbers of n bytes, compared from the top byte down.
RECURSIVE LeqFrom(_, _, _)
LeqFrom(a, b, k) ==
    IF k = 0 THEN TRUE
    ELSE IF a[k] # b[k] THEN a[k] < b[k]
    ELSE LeqFrom(a, b, k - 1)

LeqWide(a, b) == LeqFrom(a, b, 2 * Width)

(***************************************************************************)
(* package ocsp (golang.org/x/crypto/ocsp) and crypto/x509, at the         *)
(* interface Sign uses.                                                    *)
(***************************************************************************)
\* ocsp.Good, ocsp.Revoked, ocsp.Unknown
Good == 0
Revoked == 1
Unknown == 2

\* The statusCode map.
statusCode == [k \in {"good", "revoked", "unknown"} |->
                 CASE k = "good" -> Good [] k = "revoked" -> Revoked [] k = "unknown" -> Unknown]

\* An ocsp.Response template.
Response(status, serial, thisUpdate, nextUpdate, revokedAt, reason, cert) ==
    [Status |-> status, SerialNumber |-> serial, ThisUpdate |-> thisUpdate,
     NextUpdate |-> nextUpdate, RevokedAt |-> revokedAt, RevocationReason |-> reason,
     Certificate |-> cert]

\* The zero ocsp.Response.
ZeroResponse == Response(0, 0, ZeroTime, ZeroTime, ZeroTime, 0, NilCert)

\* bytes.Compare: -1, 0 or 1, lexicographically, from position k on.
RECURSIVE CompareFrom(_, _, _)
CompareFrom(a, b, k) ==
    IF k > Len(a) /\ k > Len(b) THEN 0
    ELSE IF k > Len(a) THEN -1
    ELSE IF k > Len(b) THEN 1
    ELSE IF a[k] < b[k] THEN -1
    ELSE IF a[k] > b[k] THEN 1
    ELSE CompareFrom(a, b, k + 1)

Compare(a, b) == CompareFrom(a, b, 1)

\* Certificate.CheckSignatureFrom(parent): nil iff the certificate's signature
\* verifies under the parent's public key.
CheckSignatureFrom(cert, parent) ==
    IF cert.SignedBy = parent.PublicKey
    THEN NoErr
    ELSE Err("x509", "", "", "verification error")

\* The signed response: the encoded fields and the key that signed them.
\* No revocation information is encoded unless the status is Revoked.
Encoded(issuer, template, priv) ==
    [issuerName |-> issuer.RawSubject, issuerKey |-> issuer.PublicKey,
     status |-> template.Status, serial |-> template.SerialNumber,
     thisUpdate |-> template.ThisUpdate, nextUpdate |-> template.NextUpdate,
     revokedAt |-> IF template.Status = Revoked THEN template.RevokedAt ELSE ZeroTime,
     reason |-> IF template.Status = Revoked THEN template.RevocationReason ELSE 0,
     cert |-> template.Certificate, signedBy |-> priv.Public]

\* No response bytes (Go's nil slice).
NilResponse == Encoded(NilCert, ZeroResponse, NilKey)

\* ocsp.CreateResponse(issuer, responderCert, template, priv)
CreateResponse(issuer, responderCert, template, priv) ==
    IF priv.usable
    THEN [bytes |-> Encoded(issuer, template, priv), err |-> NoErr]
    ELSE [bytes |-> NilResponse, err |-> Err("ocsp", "", "", "unsupported key")]

(***************************************************************************)
(* StandardSigner.Sign, piece by piece.                                    *)
(***************************************************************************)
SignRequest(cert, status, reason, revokedAt) ==
    [Certificate |-> cert, Status |-> status, Reason |-> reason, RevokedAt |-> revokedAt]

NoRequest == SignRequest(NilCert, "", 0, ZeroTime)

\* The four rejections of Sign (lines 96, 101, 104, 113).
ErrNoCertificate == ErrorsNew("TODO")
ErrIssuerName == ErrorsNew("TODO")
ErrSignature == ErrorsNew("TODO")
ErrStatus == ErrorsNew("TODO")

\* line 95
CertificateMissing(req) == req.Certificate = NilCert

\* A Sign that skips the issuer-name check.
IssuerNameRejectedNever(req, s) == FALSE

\* line 100
IssuerNameRejected(req, s) ==
    Compare(req.Certificate.RawIssuer, s.issuer.RawSubject) # 0

\* A Sign that skips the signature check.
SignatureRejectedNever(req, s) == FALSE

\* line 103
SignatureRejected(req, s) ==
    CheckSignatureFrom(req.Certificate, s.issuer) # NoErr

\* line 108: thisUpdate from the clock reading t (in minutes).
ThisUpdate(t) == Round(Time(t), Hour)

\* line 109
NextUpdate(thisUpdate, s) == TimeAdd(thisUpdate, s.interval)

\* A lookup that ignores the map's ok flag: a missing key reads as the zero
\* value, ocsp.Good.
LookupStatusDefault(name) ==
    IF name \in DOMAIN statusCode
    THEN [status |-> statusCode[name], ok |-> TRUE]
    ELSE [status |-> 0, ok |-> TRUE]

\* line 111: (status, ok)
LookupStatus(name) ==
    IF name \in DOMAIN statusCode
    THEN [status |-> statusCode[name], ok |-> TRUE]
    ELSE [status |-> 0, ok |-> FALSE]

\* A template that copies the revocation fields whatever the status.
RevocationFieldsAlways(status, req) ==
    [RevokedAt |-> req.RevokedAt, RevocationReason |-> req.Reason]

\* lines 124-127: the template's revocation time and reason.
RevocationFields(status, req) ==
    IF status = Revoked
    THEN [RevokedAt |-> req.RevokedAt, RevocationReason |-> req.Reason]
    ELSE [RevokedAt |-> ZeroResponse.RevokedAt,
          RevocationReason |-> ZeroResponse.RevocationReason]

\* lines 116-127
Template(s, req, status, thisUpdate, nextUpdate) ==
    LET rev == RevocationFields(status, req)
    IN  Response(status, req.Certificate.SerialNumber, thisUpdate, nextUpdate,
                 rev.RevokedAt, rev.RevocationReason, s.responder)

\* A Sign with a pointer receiver that resets the shared signer's interval.
SignerAfterSignReset(sg) == << [sg[1] EXCEPT !.interval = Zero64] >>

\* Sign has a value receiver and assigns to no field of it: the signer the
\* callers share after a call is the one before it.
SignerAfterSign(sg) == sg

\* Sign(req) on signer s as one sequential run reading the clock at t:
\* the pair (bytes, error).
SignAlone(s, req, t) ==
    LET Fail(e)    == [bytes |-> NilResponse, err |-> e]
        thisUpdate == ThisUpdate(t)
        nextUpdate == NextUpdate(thisUpdate, s)
        st         == LookupStatus(req.Status)
    IN  IF CertificateMissing(req) THEN Fail(ErrNoCertificate)
        ELSE IF IssuerNameRejected(req, s) THEN Fail(ErrIssuerName)
        ELSE IF SignatureRejected(req, s) THEN Fail(ErrSignature)
        ELSE IF ~st.ok THEN Fail(ErrStatus)
        ELSE CreateResponse(s.issuer, s.responder,
                            Template(s, req, st.status, thisUpdate, nextUpdate), s.key)

(***************************************************************************)
(* The state.                                                              *)
(***************************************************************************)
VARIABLES
    now,     \* the clock, in minutes
    signer,  \* the Signer the last constructor call returned (NilSigner: nil)
    ctor,    \* the last constructor call: its function, arguments and error
    calls    \* per caller, the Sign call in progress: its position and locals

vars == << now, signer, ctor, calls >>

\* The callers of Sign.
Procs == {1, 2}

\* A constructor call.
CtorCall(fn, issuerFile, responderFile, keyFile, issuer, responder, key, interval, err) ==
    [fn |-> fn, issuerFile |-> issuerFile, responderFile |-> responderFile,
     keyFile |-> keyFile, issuer |-> issuer, responder |-> responder, key |-> key,
     interval |-> interval, err |-> err]

NoCtorCall == CtorCall("", "", "", "", NilCert, NilCert, NilKey, Zero64, NoErr)

\* A caller that is not inside Sign.
Idle ==
    [pc |-> "idle", req |-> NoRequest,
     s |-> StandardSigner(NilCert, NilCert, NilKey, Zero64),
     readAt |-> 0, thisUpdate |-> ZeroTime, nextUpdate |-> ZeroTime,
     status |-> 0, template |-> ZeroResponse,
     bytes |-> NilResponse, err |-> NoErr,
     ops |-> << >>, site |-> ""]

\* return nil, e from the check named site.
Return(c, e, site) == [c EXCEPT !.pc = "done", !.err = e, !.site = site]

Statuses == {"good", "revoked", "unknown", "", "expired"}

RevocationTimes == {ZeroTime, Time(45)}

Requests ==
    {SignRequest(c, st, r, t) :
        c \in LeafCerts \cup {NilCert}, st \in Statuses,
        r \in 0..MaxReason, t \in RevocationTimes}

\* The requests of the concurrent callers: one per outcome of Sign.
ConcRequests ==
    {SignRequest(c, st, MaxReason, Time(45)) :
        c \in {NilCert, LeafGood, LeafForged, LeafForeign},
        st \in {"good", "revoked", "expired"}}

(***************************************************************************)
(* The constructors as operations.                                         *)
(***************************************************************************)
CallNewSigner(issuer, responder, key, interval) ==
    LET r == NewSigner(issuer, responder, key, interval)
    IN  /\ signer' = r.signer
        /\ ctor' = CtorCall("NewSigner", "", "", "", issuer, responder, key, interval, r.err)
        /\ UNCHANGED << now, calls >>

CallNewStandardSignerFromFile(issuerFile, responderFile, keyFile, interval) ==
    LET r == NewStandardSignerFromFile(issuerFile, responderFile, keyFile, interval)
    IN  /\ signer' = r.signer
        /\ ctor' = CtorCall("NewStandardSignerFromFile", issuerFile, responderFile, keyFile,
                            NilCert, NilCert, NilKey, interval, r.err)
        /\ UNCHANGED << now, calls >>

(***************************************************************************)
(* Sign, step by step.  Each step is one statement group of the method;    *)
(* the steps of different callers interleave.                              *)
(***************************************************************************)
\* The call and the presence check (lines 94-97).
SignCall(p, req) ==
    /\ calls[p].pc = "idle"
    /\ signer # NilSigner
    /\ LET c == [Idle EXCEPT !.req = req, !.s = signer[1]]
       IN  calls' = [calls EXCEPT ![p] =
                IF CertificateMissing(req)
                THEN Return(c, ErrNoCertificate, "presence")
                ELSE [c EXCEPT !.pc = "issuerName"]]
    /\ signer' = SignerAfterSign(signer)
    /\ UNCHANGED << now, ctor >>

\* The issuer-name check (lines 100-102).
SignIssuerName(p) ==
    /\ calls[p].pc = "issuerName"
    /\ LET c == [calls[p] EXCEPT !.ops = Append(@, "compare")]
       IN  calls' = [calls EXCEPT ![p] =
                IF IssuerNameRejected(c.req, c.s)
                THEN Return(c, ErrIssuerName, "issuerName")
                ELSE [c EXCEPT !.pc = "signature"]]
    /\ UNCHANGED << now, signer, ctor >>

\* The signature check (lines 103-105).
SignSignature(p) ==
    /\ calls[p].pc = "signature"
    /\ LET c == [calls[p] EXCEPT !.ops = Append(@, "verify")]
       IN  calls' = [calls EXCEPT ![p] =
                IF SignatureRejected(c.req, c.s)
                THEN Return(c, ErrSignature, "signature")
                ELSE [c EXCEPT !.pc = "timestamps"]]
    /\ UNCHANGED << now, signer, ctor >>

\* The timestamps (lines 108-109).
SignTimestamps(p) ==
    /\ calls[p].pc = "timestamps"
    /\ LET c          == calls[p]
           thisUpdate == ThisUpdate(now)
       IN  calls' = [calls EXCEPT ![p] =
                [c EXCEPT !.pc = "status", !.readAt = now,
                          !.thisUpdate = thisUpdate,
                          !.nextUpdate = NextUpdate(thisUpdate, c.s)]]
    /\ UNCHANGED << now, signer, ctor >>

\* The status lookup (lines 111-114).
SignStatus(p) ==
    /\ calls[p].pc = "status"
    /\ LET c  == calls[p]
           st == LookupStatus(c.req.Status)
       IN  calls' = [calls EXCEPT ![p] =
                IF ~st.ok
                THEN Return(c, ErrStatus, "status")
                ELSE [c EXCEPT !.pc = "template", !.status = st.status]]
    /\ UNCHANGED << now, signer, ctor >>

\* The template (lines 116-127).
SignTemplate(p) ==
    /\ calls[p].pc = "template"
    /\ LET c == calls[p]
       IN  calls' = [calls EXCEPT ![p] =
                [c EXCEPT !.pc = "create",
                          !.template = Template(c.s, c.req, c.status, c.thisUpdate, c.nextUpdate)]]
    /\ UNCHANGED << now, signer, ctor >>

\* The encode-and-sign step and the return of its result (line 129).
SignCreate(p) ==
    /\ calls[p].pc = "create"
    /\ LET c == [calls[p] EXCEPT !.ops = Append(@, "create")]
           r == CreateResponse(c.s.issuer, c.s.responder, c.template, c.s.key)
       IN  calls' = [calls EXCEPT ![p] =
                [c EXCEPT !.pc = "done", !.bytes = r.bytes, !.err = r.err, !.site = "create"]]
    /\ UNCHANGED << now, signer, ctor >>

\* The caller takes the result and is free to call again.
SignDone(p) ==
    /\ calls[p].pc = "done"
    /\ calls' = [calls EXCEPT ![p] = Idle]
    /\ UNCHANGED << now, signer, ctor >>

\* Time passes.
Tick ==
    /\ now + ClockStep <= MaxNow
    /\ now' = now + ClockStep
    /\ UNCHANGED << signer, ctor, calls >>

(***************************************************************************)
(* Specifications.                                                         *)
(***************************************************************************)
\* The signers of the model, each as NewSigner returns it.
Constructed(issuers, keys, intervals) ==
    {CtorCall("NewSigner", "", "", "", i, ResponderCert, k, n, NoErr) :
        i \in issuers, k \in keys, n \in intervals}

InitWith(ctors) ==
    /\ now = 0
    /\ ctor \in ctors
    /\ signer = NewSigner(ctor.issuer, ctor.responder, ctor.key, ctor.interval).signer
    /\ calls = [p \in Procs |-> Idle]

\* One caller, every request, every signer.
Init == InitWith(Constructed({CACert, OtherCACert}, {OcspKey, OddKey}, Intervals))

Next ==
    \/ \E req \in Requests : SignCall(1, req)
    \/ SignIssuerName(1)
    \/ SignSignature(1)
    \/ SignTimestamps(1)
    \/ SignStatus(1)
    \/ SignTemplate(1)
    \/ SignCreate(1)
    \/ SignDone(1)
    \/ Tick

Spec == Init /\ [][Next]_vars

\* Two callers sharing one signer.
InitConc ==
    InitWith(Constructed({CACert}, {OcspKey, OddKey}, {Interval3600, IntervalWrapNeg}))

NextConc ==
    \/ \E p \in Procs, req \in ConcRequests : SignCall(p, req)
    \/ \E p \in Procs : SignIssuerName(p)
    \/ \E p \in Procs : SignSignature(p)
    \/ \E p \in Procs : SignTimestamps(p)
    \/ \E p \in Procs : SignStatus(p)
    \/ \E p \in Procs : SignTemplate(p)
    \/ \E p \in Procs : SignCreate(p)
    \/ \E p \in Procs : SignDone(p)
    \/ Tick

SpecConc == InitConc /\ [][NextConc]_vars

\* The constructors alone.
InitCtor ==
    /\ now = 0
    /\ signer = NilSigner
    /\ ctor = NoCtorCall
    /\ calls = [p \in Procs |-> Idle]

NextCtor ==
    \/ \E i \in {CACert, OtherCACert}, r \in {CACert, ResponderCert},
          k \in {OcspKey, OddKey}, n \in CtorIntervals :
          CallNewSigner(i, r, k, n)
    \/ \E i \in Paths, r \in Paths, k \in Paths, n \in CtorIntervals :
          CallNewStandardSignerFromFile(i, r, k, n)

SpecCtor == InitCtor /\ [][NextCtor]_vars

(***************************************************************************)
(* Properties.                                                             *)
(***************************************************************************)
\* The signer the callers share.
Shared == signer[1]

Finished(c) == c.pc = "done"

\* The call returned response bytes.
Responded(c) == Finished(c) /\ c.bytes # NilResponse

\* The call returned an error and no bytes.
Failed(c) == Finished(c) /\ c.err # NoErr /\ c.bytes = NilResponse

Performed(c, op) == \E i \in 1..Len(c.ops) : c.ops[i] = op

\* The call has computed its timestamps.
PastTimestamps(c) ==
    \/ c.pc \in {"status", "template", "create"}
    \/ Finished(c) /\ c.site \in {"status", "create"}

\* The request's certificate names the shared signer's issuer as its issuer.
NameMatches(c) == c.req.Certificate.RawIssuer = Shared.issuer.RawSubject

\* The request's certificate is signed by the shared signer's issuer key.
SignatureVerifies(c) == c.req.Certificate.SignedBy = Shared.issuer.PublicKey

\* C1: Sign returns response bytes only for a request whose certificate is
\* present, names the signer's issuer and is signed by the issuer's key; a
\* certificate that names the issuer but is not signed by its key is rejected
\* with an error, and ocsp.CreateResponse is never called for it.
C1_TrustGate ==
    \A p \in Procs :
        LET c == calls[p]
        IN  /\ Responded(c) =>
                /\ c.req.Certificate # NilCert
                /\ NameMatches(c)
                /\ SignatureVerifies(c)
            /\ (c.pc # "idle" /\ c.req.Certificate # NilCert
                    /\ NameMatches(c) /\ ~SignatureVerifies(c)) =>
                /\ ~Performed(c, "create")
                /\ Finished(c) => Failed(c)

\* A forged certificate (issuer name right, signature wrong) has been rejected.
C1_Witness ==
    \E p \in Procs :
        LET c == calls[p]
        IN  /\ Finished(c) /\ c.req.Certificate # NilCert
            /\ NameMatches(c) /\ ~SignatureVerifies(c)
            /\ Failed(c)

\* C2: thisUpdate is the clock reading with its minutes truncated (never later
\* than the reading), so two calls that read the clock in the same hour have
\* the same thisUpdate.
C2_ThisUpdateTruncated ==
    \A p, q \in Procs :
        LET c == calls[p]
            d == calls[q]
        IN  /\ PastTimestamps(c) =>
                /\ c.thisUpdate = Time(c.readAt - (c.readAt % Hour))
                /\ c.thisUpdate.min <= c.readAt
            /\ (PastTimestamps(c) /\ PastTimestamps(d)
                    /\ c.readAt \div Hour = d.readAt \div Hour) =>
                c.thisUpdate = d.thisUpdate

\* C3: the template handed to ocsp.CreateResponse has zero revocation time and
\* reason for the statuses good and unknown, whatever the request holds, and
\* the request's revocation time and reason for the status revoked.
C3_RevocationFields ==
    \A p \in Procs :
        LET c == calls[p]
        IN  (c.pc = "create" \/ Performed(c, "create")) =>
                /\ c.req.Status \in {"good", "unknown"} =>
                    /\ c.template.RevokedAt = ZeroTime
                    /\ c.template.RevocationReason = 0
                /\ c.req.Status = "revoked" =>
                    /\ c.template.RevokedAt = c.req.RevokedAt
                    /\ c.template.RevocationReason = c.req.Reason

\* A template was handed over for a good or unknown status whose request
\* carried a revocation time and a reason.
C3_Witness ==
    \E p \in Procs :
        LET c == calls[p]
        IN  /\ Performed(c, "create")
            /\ c.req.Status \in {"good", "unknown"}
            /\ c.req.RevokedAt # ZeroTime
            /\ c.req.Reason # 0

\* The three files of the last file-based construction were read and parsed.
FilesLoad ==
    /\ ReadFile(ctor.issuerFile).err = NoErr
    /\ ReadFile(ctor.responderFile).err = NoErr
    /\ ReadFile(ctor.keyFile).err = NoErr
    /\ ParseCertificatePEM(ReadFile(ctor.issuerFile).bytes).err = NoErr
    /\ ParseCertificatePEM(ReadFile(ctor.responderFile).bytes).err = NoErr
    /\ ParsePrivateKeyPEM(ReadFile(ctor.keyFile).bytes).err = NoErr

\* C4: the signer NewStandardSignerFromFile builds is the one NewSigner builds
\* from the certificate at issuerFile, the certificate at responderFile and
\* the key at keyFile; its responder is the certificate at responderFile.
C4_FromFileDelegates ==
    (ctor.fn = "NewStandardSignerFromFile" /\ FilesLoad) =>
        /\ signer = NewSigner(ParseCertificatePEM(ReadFile(ctor.issuerFile).bytes).cert,
                              ParseCertificatePEM(ReadFile(ctor.responderFile).bytes).cert,
                              ParsePrivateKeyPEM(ReadFile(ctor.keyFile).bytes).key,
                              ctor.interval).signer
        /\ signer[1].responder = Files[ctor.responderFile].cert

\* C5: for a certificate that passes the trust checks, with a key
\* ocsp.CreateResponse can sign with, Sign succeeds for good, revoked and
\* unknown with the template status 0, 1 and 2, and fails without a response,
\* and without calling ocsp.CreateResponse, for every other status string.
C5_StatusCompleteness ==
    \A p \in Procs :
        LET c == calls[p]
        IN  (Finished(c) /\ c.req.Certificate # NilCert /\ NameMatches(c)
                /\ SignatureVerifies(c) /\ Shared.key.usable) =>
                /\ c.req.Status = "good" => Responded(c) /\ c.err = NoErr /\ c.template.Status = 0
                /\ c.req.Status = "revoked" => Responded(c) /\ c.err = NoErr /\ c.template.Status = 1
                /\ c.req.Status = "unknown" => Responded(c) /\ c.err = NoErr /\ c.template.Status = 2
                /\ c.req.Status \notin {"good", "revoked", "unknown"} =>
                    Failed(c) /\ ~Performed(c, "create")

\* A trusted certificate with an unrecognized status (the empty string) has
\* been rejected.
C5_Witness ==
    \E p \in Procs :
        LET c == calls[p]
        IN  /\ Finished(c) /\ c.req.Certificate # NilCert /\ NameMatches(c)
            /\ SignatureVerifies(c) /\ Shared.key.usable
            /\ c.req.Status = "" /\ Failed(c)

\* The checks of Sign that reject a request.
Rejections == {"presence", "issuerName", "signature", "status"}

\* C6: the errors Sign returns for two different rejection causes differ.
C6_DistinctErrors ==
    \A p, q \in Procs :
        LET c == calls[p]
            d == calls[q]
        IN  (Finished(c) /\ Finished(d) /\ c.site \in Rejections /\ d.site \in Rejections
                /\ c.site # d.site) =>
                c.err # d.err

\* The duration d is exactly n seconds, n a non-negative int.
IsSeconds(d, n) == ~IsNeg64(d) /\ Widen(d) = MulExact(n, Second)

\* n seconds in nanoseconds fit an int64: n * 10^9 <= 2^63 - 1.
FitsDuration(n) == LeqWide(MulExact(n, Second), MaxInt64Wide)

\* C7 as stated: in every response, nextUpdate - thisUpdate is the
\* constructor's interval argument in seconds, whatever the argument.
C7_IntervalExact ==
    \A p \in Procs :
        LET c == calls[p]
        IN  Responded(c) =>
                IsSeconds(TimeSub(c.bytes.nextUpdate, c.bytes.thisUpdate), ctor.interval)

\* C7 as amended: in every response, nextUpdate - thisUpdate is the signer's
\* interval, and that is the constructor's interval argument in seconds
\* whenever the argument times 10^9 fits an int64 (argument <= 9223372036).
C7_IntervalExactWhenFits ==
    \A p \in Procs :
        LET c == calls[p]
        IN  Responded(c) =>
                /\ c.bytes.nextUpdate.min = c.bytes.thisUpdate.min
                /\ TimeSub(c.bytes.nextUpdate, c.bytes.thisUpdate) = Shared.interval
                /\ FitsDuration(ctor.interval) =>
                    IsSeconds(TimeSub(c.bytes.nextUpdate, c.bytes.thisUpdate), ctor.interval)

\* A response was produced by a signer built with the largest interval that
\* fits, 9223372036 seconds.
C7_Witness ==
    \E p \in Procs :
        /\ Responded(calls[p])
        /\ ctor.interval = IntervalMaxExact
        /\ FitsDuration(ctor.interval)

\* One of the three files of the last file-based construction cannot be read.
SomeFileUnreadable ==
    \E f \in {ctor.issuerFile, ctor.responderFile, ctor.keyFile} : ReadFile(f).err # NoErr

\* C8: when any of the three files cannot be read, NewStandardSignerFromFile
\* returns no signer and a CertificateError/ReadFailed error.
C8_ReadFailed ==
    (ctor.fn = "NewStandardSignerFromFile" /\ SomeFileUnreadable) =>
        /\ signer = NilSigner
        /\ ctor.err.category = "CertificateError"
        /\ ctor.err.reason = "ReadFailed"

\* C9: the shared signer stays the one the constructor returned while calls
\* of Sign interleave, and every finished call returns what Sign returns when
\* run alone on the same signer and request at the call's clock reading.
C9_SharedSignerUntouched ==
    /\ signer = NewSigner(ctor.issuer, ctor.responder, ctor.key, ctor.interval).signer
    /\ \A p \in Procs :
        LET c == calls[p]
            r == SignAlone(Shared, c.req, c.readAt)
        IN  Finished(c) => c.bytes = r.bytes /\ c.err = r.err

\* A call has produced a response while another caller was inside Sign, past
\* its own clock reading, taken at another time.
C9_Witness ==
    \E p, q \in Procs :
        /\ p # q
        /\ Responded(calls[p])
        /\ calls[q].pc \in {"status", "template", "create"}
        /\ calls[q].readAt # calls[p].readAt

IsPrefix(a, b) == Len(a) <= Len(b) /\ \A i \in 1..Len(a) : a[i] = b[i]

\* C10: the checks run in the order presence, issuer name, signature: a
\* request without a certificate fails with no comparison, verification or
\* signing done, and a certificate whose issuer name differs from the issuer's
\* subject fails with no verification and no signing done.
C10_CheckOrder ==
    \A p \in Procs :
        LET c == calls[p]
        IN  /\ IsPrefix(c.ops, << "compare", "verify", "create" >>)
            /\ (c.pc # "idle" /\ c.req.Certificate = NilCert) =>
                /\ c.ops = << >>
                /\ Failed(c)
            /\ (c.pc # "idle" /\ c.req.Certificate # NilCert /\ ~NameMatches(c)) =>
                /\ ~Performed(c, "verify")
                /\ ~Performed(c, "create")
                /\ Finished(c) => Failed(c)

\* A certificate signed by the issuer's key under another issuer name has
\* been rejected after the name comparison alone.
C10_Witness ==
    \E p \in Procs :
        LET c == calls[p]
        IN  /\ Finished(c) /\ c.req.Certificate # NilCert
            /\ ~NameMatches(c) /\ SignatureVerifies(c)
            /\ c.ops = << "compare" >> /\ Failed(c)

=============================================================================
